---- MODULE Spec2Model ----
(***************************************************************************)
(* Model of price_monitor_agent.py: the observation pipeline               *)
(* (dispatch -> fetch -> store -> trailing low -> notify) run by           *)
(* run_monitoring_loop over TRACKED_PRODUCTS against a SQLite store.       *)
(*                                                                         *)
(* Time is counted in weeks and the clock never goes back.  Prices are the *)
(* naturals 1..MaxPrice; the float infinity used as the default of a       *)
(* missing price is Inf, larger than every price.  Strings that are        *)
(* matched by substring (locators, mapping keys) are sequences of          *)
(* one-character strings.  The log is the record of what the current pass  *)
(* has called so far; it starts afresh with every pass.                    *)
(***************************************************************************)
EXTENDS Integers, Sequences, FiniteSets, TLC

\* ------------------------------------------------------------------ bounds
MaxPrice == 2
MaxRows == 2
MaxPasses == 2

\* --------------------------------------------------------------- constants
\* weeks=52 passed by check_product to get_trailing_low
Weeks == 52
\* the instants at which the clock is read: the start, a whole window after
\* the start, and a week after that
Times == {0, Weeks, Weeks + 1}
\* float("inf"), the default of a missing price
Inf == MaxPrice + 1
\* Python's None as returned by get_trailing_low
None == -1
\* scraper_func = None
NoFunc == "None"

VARIABLES TRACKED_PRODUCTS, SCRAPER_MAPPING, schema, store, clock, pass, i,
          passes, log, notified, trailing_low, twilio, sms, console

vars == <<TRACKED_PRODUCTS, SCRAPER_MAPPING, schema, store, clock, pass, i,
          passes, log, notified, trailing_low, twilio, sms, console>>

\* ------------------------------------------------------------ configuration
\* "example.com", "example2.com", "amazon.com" and two overlapping keys,
\* abbreviated to x.c, x2.c, a.c, .c and x
KeyExample == <<"x", ".", "c">>
KeyExample2 == <<"x", "2", ".", "c">>
KeyDotCom == <<".", "c">>
KeyEx == <<"x">>

ProductA == [sku |-> "B08N5WRWNW", url |-> <<"x", ".", "c", "/", "A">>]
ProductB == [sku |-> "B09ABCDE123", url |-> <<"x", "2", ".", "c", "/", "B">>]
ProductK == [sku |-> "B0DWRBVDN6", url |-> <<"a", ".", "c", "/", "K">>]

Skus == {ProductA.sku, ProductB.sku, ProductK.sku}

\* the mapping of the repository, and two mappings whose keys overlap
MappingRepo ==
    << [key |-> KeyExample, func |-> "f1"], [key |-> KeyExample2, func |-> "f2"] >>
MappingShortFirst ==
    << [key |-> KeyEx, func |-> "f1"], [key |-> KeyExample2, func |-> "f2"] >>
MappingLongFirst ==
    << [key |-> KeyExample2, func |-> "f2"], [key |-> KeyDotCom, func |-> "f1"] >>

\* the configurations: the tracked list and the mapping of the repository,
\* and a tracked list with each of the overlapping mappings
Configs ==
    { [products |-> <<ProductA, ProductB, ProductK>>, mapping |-> MappingRepo],
      [products |-> <<ProductK, ProductB>>, mapping |-> MappingShortFirst],
      [products |-> <<ProductB, ProductA>>, mapping |-> MappingLongFirst] }

\* ------------------------------------------------------------------ helpers
\* Python's `k in u` on strings
IsSubstring(k, u) ==
    \E s \in 0..(Len(u) - Len(k)) : \A j \in 1..Len(k) : u[s + j] = k[j]

RECURSIVE DispatchFrom(_, _, _)
DispatchFrom(m, url, k) ==
    IF k > Len(m) THEN NoFunc
    ELSE IF IsSubstring(m[k].key, url) THEN m[k].func
    ELSE DispatchFrom(m, url, k + 1)

\* the loop without its break: the last matching key wins
RECURSIVE DispatchBack(_, _, _)
DispatchBack(m, url, k) ==
    IF k < 1 THEN NoFunc
    ELSE IF IsSubstring(m[k].key, url) THEN m[k].func
    ELSE DispatchBack(m, url, k - 1)

DispatchLast(m, url) == DispatchBack(m, url, Len(m))

\* a loop that falls back on the first registered function
DispatchOrFirst(m, url) ==
    IF DispatchFrom(m, url, 1) = NoFunc THEN m[1].func ELSE DispatchFrom(m, url, 1)

\* the for loop over SCRAPER_MAPPING.items() with break on the first match
Dispatch(m, url) == DispatchFrom(m, url, 1)

\* a field of a fetch result: missing, present and numeric, or present and
\* not convertible by float()
Absent == [kind |-> "absent", val |-> 0]
Malformed == [kind |-> "malformed", val |-> 0]
Num(n) == [kind |-> "num", val |-> n]

\* float(result.get(key, default)): the value, when float() does not raise
FloatGet(f, default) == IF f.kind = "absent" THEN default ELSE f.val

\* float() raises ValueError on a value that is not a number
FloatRaises(f) == f.kind = "malformed"

\* bool(result.get("available", False))
BoolGet(a) == a = "true"

\* str(result.get("site", "UnknownSite"))
StrGet(s) == IF s = "absent" THEN "UnknownSite" ELSE s

\* what a fetch capability can do: raise, or return a dictionary
FetchOutcomes ==
    { [kind |-> "raise", price |-> Absent, shipping |-> Absent,
       available |-> "absent", site |-> "absent"] }
    \cup
    { [kind |-> "ok", price |-> Num(n), shipping |-> Num(0), available |-> a,
       site |-> "ExampleSite"] : n \in 1..MaxPrice, a \in {"true", "false"} }
    \cup
    { [kind |-> "ok", price |-> Malformed, shipping |-> Num(0),
       available |-> "true", site |-> "ExampleSite"],
      [kind |-> "ok", price |-> Num(1), shipping |-> Malformed,
       available |-> "true", site |-> "ExampleSite"],
      [kind |-> "ok", price |-> Absent, shipping |-> Num(0),
       available |-> "true", site |-> "ExampleSite"],
      [kind |-> "ok", price |-> Absent, shipping |-> Absent,
       available |-> "absent", site |-> "absent"] }

\* ------------------------------------------------------- observation store
\* CREATE without IF NOT EXISTS clause, were sqlite to accept it
AddAlways(s, name) == Append(s, name)

\* CREATE TABLE IF NOT EXISTS / CREATE INDEX IF NOT EXISTS; outcome names
\* where sqlite fails: nowhere, on connect, or on the index statement
AddIfNotExists(s, name) ==
    IF \E k \in 1..Len(s) : s[k] = name THEN s ELSE Append(s, name)

\* the database after init_db: s is the list of schema objects, st the rows
init_db(s, st, outcome) ==
    [schema |-> IF outcome = "connect" THEN s
                ELSE IF outcome = "index" THEN AddIfNotExists(s, "price_history")
                ELSE AddIfNotExists(AddIfNotExists(s, "price_history"),
                                    "ix_price_history_sku_ts"),
     store |-> st]

\* INSERT OR REPLACE keyed by sku: the latest row of a SKU replaces the others
store_price_replace(st, sku, site, price, shipping, available, now) ==
    Append(SelectSeq(st, LAMBDA r : r.sku # sku),
           [sku |-> sku, site |-> site, price |-> price, shipping |-> shipping,
            available |-> IF available THEN 1 ELSE 0, ts |-> now])

\* the INSERT executed twice
store_price_twice(st, sku, site, price, shipping, available, now) ==
    LET row == [sku |-> sku, site |-> site, price |-> price, shipping |-> shipping,
                available |-> IF available THEN 1 ELSE 0, ts |-> now]
    IN  Append(Append(st, row), row)

\* INSERT INTO price_history ... VALUES (sku, site, price, shipping, 1|0, now)
store_price(st, sku, site, price, shipping, available, now) ==
    Append(st, [sku |-> sku, site |-> site, price |-> price,
                shipping |-> shipping,
                available |-> IF available THEN 1 ELSE 0, ts |-> now])

\* the query without its sku = ? condition
InWindowAnySku(row, sku, cutoff) == row.ts >= cutoff

\* ts > ? in place of ts >= ?
InWindowStrict(row, sku, cutoff) == row.sku = sku /\ row.ts > cutoff

\* SELECT MIN(price) ... WHERE sku = ? AND ts >= ?  as one scan of the table
InWindow(row, sku, cutoff) == row.sku = sku /\ row.ts >= cutoff

RECURSIVE MinScan(_, _, _, _, _)
MinScan(st, sku, cutoff, k, acc) ==
    IF k > Len(st) THEN acc
    ELSE IF InWindow(st[k], sku, cutoff) /\ (acc = None \/ st[k].price < acc)
         THEN MinScan(st, sku, cutoff, k + 1, st[k].price)
         ELSE MinScan(st, sku, cutoff, k + 1, acc)

get_trailing_low(st, sku, weeks, now) ==
    MinScan(st, sku, now - weeks, 1, None)

\* -------------------------------------------------------------- main logic
\* an entry of the record of what the current pass has done so far
Ev(op, k, func) == [op |-> op, i |-> k, func |-> func]

\* the trailing low queried before the price is stored
QueryThenStore(st, sku, site, price, shipping, available, t1, t2) ==
    [store |-> store_price(st, sku, site, price, shipping, available, t1),
     low |-> get_trailing_low(st, sku, Weeks, t2)]

\* the price is stored first, the trailing low is queried afterwards
StoreThenQuery(st, sku, site, price, shipping, available, t1, t2) ==
    LET st2 == store_price(st, sku, site, price, shipping, available, t1)
    IN  [store |-> st2, low |-> get_trailing_low(st2, sku, Weeks, t2)]

\* price > trailing_low in place of price < trailing_low
NewLowGreater(low, available, price) ==
    low = None \/ (available /\ price > low)

\* price <= trailing_low in place of price < trailing_low
NewLowOrEqual(low, available, price) ==
    low = None \/ (available /\ price <= low)

\* if trailing_low is None or (available and price < trailing_low)
NewLow(low, available, price) ==
    low = None \/ (available /\ price < low)

\* the exception of scraper_func(url) not caught
FetchRaised(k, func, st, ntf) ==
    [store |-> st, notified |-> ntf, trailing_low |-> None, raised |-> TRUE,
     events |-> <<Ev("check_product", k, NoFunc), Ev("fetch", k, func),
                  Ev("fetch_error", k, NoFunc)>>]

\* except Exception around scraper_func(url): print and return
FetchFailed(k, func, st, ntf) ==
    [store |-> st, notified |-> ntf, trailing_low |-> None, raised |-> FALSE,
     events |-> <<Ev("check_product", k, NoFunc), Ev("fetch", k, func),
                  Ev("fetch_error", k, NoFunc)>>]

\* if scraper_func is None: print and return
NoScraper(k, st, ntf) ==
    [store |-> st, notified |-> ntf, trailing_low |-> None, raised |-> FALSE,
     events |-> <<Ev("check_product", k, NoFunc), Ev("no_scraper", k, NoFunc)>>]

\* float() of a malformed field raises outside of any try block
CoerceFailed(k, func, st, ntf) ==
    [store |-> st, notified |-> ntf, trailing_low |-> None, raised |-> TRUE,
     events |-> <<Ev("check_product", k, NoFunc), Ev("fetch", k, func),
                  Ev("value_error", k, NoFunc)>>]

\* store_price raises outside of any try block; nothing is committed
StoreFailed(k, func, st, ntf) ==
    [store |-> st, notified |-> ntf, trailing_low |-> None, raised |-> TRUE,
     events |-> <<Ev("check_product", k, NoFunc), Ev("fetch", k, func),
                  Ev("store_error", k, NoFunc)>>]

\* check_product(product) as the k-th product of the pass: res is what the
\* fetch capability does, writeOk whether the INSERT succeeds, t1 and t2 the
\* readings of the clock in store_price and in get_trailing_low; the local
\* trailing_low is None on the paths that never assign it
check_product(product, k, m, st, ntf, res, writeOk, t1, t2) ==
    LET func == Dispatch(m, product.url) IN
    IF func = NoFunc THEN NoScraper(k, st, ntf)
    ELSE IF res.kind = "raise" THEN FetchFailed(k, func, st, ntf)
    ELSE IF FloatRaises(res.price) \/ FloatRaises(res.shipping)
         THEN CoerceFailed(k, func, st, ntf)
    ELSE
      LET price == FloatGet(res.price, Inf)
          shipping == FloatGet(res.shipping, 0)
          available == BoolGet(res.available)
          site == StrGet(res.site)
      IN  IF ~writeOk THEN StoreFailed(k, func, st, ntf)
          ELSE
            LET sq == StoreThenQuery(st, product.sku, site, price, shipping,
                                     available, t1, t2)
                notify == NewLow(sq.low, available, price)
            IN  [store |-> sq.store,
                 notified |-> IF notify
                              THEN Append(ntf, [sku |-> product.sku, price |-> price])
                              ELSE ntf,
                 trailing_low |-> sq.low,
                 raised |-> FALSE,
                 events |-> <<Ev("check_product", k, NoFunc), Ev("fetch", k, func),
                              Ev("store_price", k, NoFunc),
                              Ev("get_trailing_low", k, NoFunc)>>
                            \o (IF notify
                                THEN <<Ev("send_notification", k, NoFunc)>>
                                ELSE <<>>)]

\* ------------------------------------------------------ notification logic
\* message_body: the product and the price it announces
Body(product, price) == [sku |-> product.sku, price |-> price]

\* a line printed by send_notification
Line(kind, body) == [kind |-> kind, sku |-> body.sku, price |-> body.price]

\* a call of twilio_client.messages.create
Attempt(body, status) == [sku |-> body.sku, price |-> body.price, status |-> status]

\* a second messages.create after the first one has failed
send_notification_retry(product, price, tw, transportOk) ==
    LET body == Body(product, price) IN
    IF tw
    THEN IF transportOk
         THEN [sms |-> <<Attempt(body, "delivered")>>,
               printed |-> <<Line("sent", body)>>, raised |-> FALSE]
         ELSE [sms |-> <<Attempt(body, "failed"), Attempt(body, "failed")>>,
               printed |-> <<Line("failed", body), Line("message", body)>>,
               raised |-> FALSE]
    ELSE [sms |-> <<>>, printed |-> <<Line("fallback", body)>>, raised |-> FALSE]

\* send_notification(product, price): tw says whether the Twilio client and
\* the four credentials are there, transportOk whether messages.create works
send_notification(product, price, tw, transportOk) ==
    LET body == Body(product, price) IN
    IF tw
    THEN IF transportOk
         THEN [sms |-> <<Attempt(body, "delivered")>>,
               printed |-> <<Line("sent", body)>>, raised |-> FALSE]
         ELSE [sms |-> <<Attempt(body, "failed")>>,
               printed |-> <<Line("failed", body), Line("message", body)>>,
               raised |-> FALSE]
    ELSE [sms |-> <<>>, printed |-> <<Line("fallback", body)>>, raised |-> FALSE]

\* no call of send_notification
NotSent == [sms |-> <<>>, printed |-> <<>>, raised |-> FALSE]

\* the exception of init_db swallowed
AfterInitIgnored(outcome) == "running"

\* the state of the pass after init_db: an exception leaves the function
AfterInit(outcome) == IF outcome = "ok" THEN "running" ELSE "aborted"

\* the state of the pass after check_product on product k of n: an exception
\* leaves the for loop, the last product ends it
AfterCheck(raised, k, n) ==
    IF raised THEN "aborted" ELSE IF k = n THEN "done" ELSE "running"

\* ----------------------------------------------------------------- actions
Init ==
    /\ \E c \in Configs :
         /\ TRACKED_PRODUCTS = c.products
         /\ SCRAPER_MAPPING = c.mapping
    /\ schema = <<>>
    /\ store = <<>>
    /\ clock = 0
    /\ pass = "idle"
    /\ i = 0
    /\ passes = 0
    /\ log = <<>>
    /\ notified = <<>>
    /\ trailing_low = None
    /\ twilio = FALSE
    /\ sms = <<>>
    /\ console = <<>>

\* run_monitoring_loop up to the first product: init_db()
RunMonitoringLoop ==
    /\ pass # "running"
    /\ passes < MaxPasses
    /\ \E outcome \in {"ok", "connect", "index"} :
         /\ schema' = init_db(schema, store, outcome).schema
         /\ store' = init_db(schema, store, outcome).store
         /\ pass' = AfterInit(outcome)
         /\ log' = <<Ev(IF outcome = "ok" THEN "init_db" ELSE "init_db_failed",
                        0, NoFunc)>>
    /\ i' = 1
    /\ passes' = passes + 1
    /\ trailing_low' = None
    /\ UNCHANGED <<TRACKED_PRODUCTS, SCRAPER_MAPPING, clock, notified, twilio,
                   sms, console>>

\* one iteration of the for loop: check_product(TRACKED_PRODUCTS[i]); the
\* INSERT may fail at any time and does fail once the disk holds MaxRows rows;
\* a call recorded in notified is the call of send_notification of line 244
CheckProduct ==
    /\ pass = "running"
    /\ i <= Len(TRACKED_PRODUCTS)
    /\ \E res \in FetchOutcomes,
          writeOk \in (IF Len(store) < MaxRows THEN BOOLEAN ELSE {FALSE}) :
         \E r \in {check_product(TRACKED_PRODUCTS[i], i, SCRAPER_MAPPING,
                                  store, notified, res, writeOk, clock, clock)} :
         \E transportOk \in (IF r.notified # notified THEN BOOLEAN ELSE {TRUE}) :
         \E n \in {IF r.notified # notified
                   THEN send_notification(TRACKED_PRODUCTS[i],
                                          r.notified[Len(r.notified)].price,
                                          twilio, transportOk)
                   ELSE NotSent} :
                /\ store' = r.store
                /\ notified' = r.notified
                /\ trailing_low' = r.trailing_low
                /\ log' = log \o r.events
                /\ sms' = sms \o n.sms
                /\ console' = console \o n.printed
                /\ pass' = AfterCheck(r.raised \/ n.raised, i, Len(TRACKED_PRODUCTS))
    /\ i' = i + 1
    /\ UNCHANGED <<TRACKED_PRODUCTS, SCRAPER_MAPPING, schema, clock, passes,
                   twilio>>

\* time goes by between two passes, up to a later instant of Times (a pass
\* takes far less than a week, so both clock readings of check_product agree)
Tick ==
    /\ pass # "running"
    /\ \E t \in Times :
         /\ t > clock
         /\ clock' = t
    /\ UNCHANGED <<TRACKED_PRODUCTS, SCRAPER_MAPPING, schema, store, pass, i,
                   passes, log, notified, trailing_low, twilio, sms, console>>

Next == RunMonitoringLoop \/ CheckProduct \/ Tick

Spec == Init /\ [][Next]_vars

\* ------------------------------------------- send_notification on its own
\* a pass that has just initialised an empty database, with the Twilio client
\* configured or not
InitNotify ==
    /\ \E c \in Configs :
         /\ TRACKED_PRODUCTS = c.products
         /\ SCRAPER_MAPPING = c.mapping
    /\ schema = init_db(<<>>, <<>>, "ok").schema
    /\ store = <<>>
    /\ clock = 0
    /\ pass = "running"
    /\ i = 1
    /\ passes = 1
    /\ log = <<Ev("init_db", 0, NoFunc)>>
    /\ notified = <<>>
    /\ trailing_low = None
    /\ twilio \in BOOLEAN
    /\ sms = <<>>
    /\ console = <<>>

\* the last statement of check_product for a product whose price is a new
\* low: send_notification(product, price), then the return to the for loop
NotifyProduct ==
    /\ pass = "running"
    /\ i <= Len(TRACKED_PRODUCTS)
    /\ \E price \in (1..MaxPrice) \cup {Inf}, transportOk \in BOOLEAN :
         LET n == send_notification(TRACKED_PRODUCTS[i], price, twilio, transportOk)
         IN  /\ notified' = Append(notified, Body(TRACKED_PRODUCTS[i], price))
             /\ sms' = sms \o n.sms
             /\ console' = console \o n.printed
             /\ log' = Append(log, Ev("send_notification", i, NoFunc))
             /\ pass' = AfterCheck(n.raised, i, Len(TRACKED_PRODUCTS))
    /\ i' = i + 1
    /\ UNCHANGED <<TRACKED_PRODUCTS, SCRAPER_MAPPING, schema, store, clock,
                   passes, trailing_low, twilio>>

NextNotify == NotifyProduct

SpecNotify == InitNotify /\ [][NextNotify]_vars

\* ============================================================== properties
\* what a step of check_product did, read off the two states of the step
Appended == Len(store') = Len(store) + 1
NewRow == store'[Len(store')]
Logged(op) == log' # log /\ log'[Len(log')].op = op

\* the lowest in-window price of a SKU in the store before the step
PriorLow(sku) == get_trailing_low(store, sku, Weeks, clock)

\* C1: a fetched observation that is available and strictly below the prior
\* in-window low L of its SKU is notified, with the new price
C1_NewLowNotifies ==
    [][(Appended /\ NewRow.available = 1 /\ PriorLow(NewRow.sku) # None
          /\ NewRow.price < PriorLow(NewRow.sku))
       => notified' = Append(notified, [sku |-> NewRow.sku, price |-> NewRow.price])]_vars

\* C2: the first observation ever stored for a SKU is notified
C2_FirstObservationNotifies ==
    [][(Appended /\ \A k \in 1..Len(store) : store[k].sku # NewRow.sku)
       => notified' = Append(notified, [sku |-> NewRow.sku, price |-> NewRow.price])]_vars

QueryWeeks == {0, 1, Weeks}

\* the rows of a SKU whose timestamp lies in [now - w, now]
RowsInWindow(sku, w, now) ==
    {k \in 1..Len(store) :
        store[k].sku = sku /\ now - w <= store[k].ts /\ store[k].ts <= now}

\* r is the least price of the rows of S, none when S is empty
IsLeastPrice(r, S) ==
    IF S = {} THEN r = None
    ELSE /\ \E k \in S : r = store[k].price
         /\ \A k \in S : r <= store[k].price

\* C4: for every SKU and window, get_trailing_low returns the least price of
\* the rows of that SKU with a timestamp in [now - W, now] (cutoff included),
\* and none when there is no such row; so does the query made by check_product
C4_TrailingLowIsWindowMinimum ==
    /\ \A sku \in Skus, w \in QueryWeeks :
         IsLeastPrice(get_trailing_low(store, sku, w, clock),
                      RowsInWindow(sku, w, clock))
    /\ (pass = "running" /\ log[Len(log)].op = "get_trailing_low")
         => IsLeastPrice(trailing_low,
                         RowsInWindow(store[Len(store)].sku, Weeks, clock))

\* a row exactly at the cutoff decides the result although an older row of the
\* same SKU is cheaper, and a query on a SKU without rows gives none
C4_Witness ==
    /\ \E sku \in Skus, w \in QueryWeeks, k \in 1..Len(store), j \in 1..Len(store) :
         /\ store[k].sku = sku /\ store[k].ts = clock - w
         /\ store[j].sku = sku /\ store[j].ts < clock - w
         /\ store[j].price < store[k].price
         /\ get_trailing_low(store, sku, w, clock) = store[k].price
    /\ \E sku \in Skus : get_trailing_low(store, sku, Weeks, clock) = None

\* C5: a failure of store_price does not abort the pass
C5_StoreFailureIsolated ==
    [][Logged("store_error") => pass' # "aborted"]_vars

\* the pass goes on after product i
PassGoesOn ==
    /\ i' = i + 1
    /\ pass' = IF i = Len(TRACKED_PRODUCTS) THEN "done" ELSE "running"

\* C6: when the fetch capability raises, nothing is stored or notified for
\* the product and the pass goes on with the next product
C6_FetchFailureIsolated ==
    [][Logged("fetch_error")
       => store' = store /\ notified' = notified /\ PassGoesOn]_vars

\* a product was fetched and stored after the fetch of an earlier product of
\* the same pass had failed
C6_Witness ==
    \E k \in 1..Len(log), j \in 1..Len(log) :
        /\ k < j
        /\ log[k].op = "fetch_error"
        /\ log[j].op = "store_price"
        /\ log[j].i > log[k].i

\* C7: a malformed price or shipping field does not abort the pass
C7_MalformedResultContained ==
    [][Logged("value_error") => pass' # "aborted"]_vars

\* no registered key is a substring of the locator
NoKeyMatches(url) ==
    \A k \in 1..Len(SCRAPER_MAPPING) : ~IsSubstring(SCRAPER_MAPPING[k].key, url)

\* C8: on a dispatch miss check_product returns without a fetch, a store write
\* or a notification, and the pass goes on with the next product
C8_DispatchMissSkips ==
    [][(pass = "running" /\ i <= Len(TRACKED_PRODUCTS)
          /\ NoKeyMatches(TRACKED_PRODUCTS[i].url))
       => /\ log' = log \o <<Ev("check_product", i, NoFunc), Ev("no_scraper", i, NoFunc)>>
          /\ store' = store /\ notified' = notified
          /\ PassGoesOn]_vars

\* the product after a dispatch miss was checked and stored in the same pass
C8_Witness ==
    \E k \in 1..Len(log), j \in 1..Len(log) :
        /\ log[k].op = "no_scraper"
        /\ log[j].op = "store_price"
        /\ log[j].i = log[k].i + 1

\* C9: every stored row stays in place, unchanged; the store only grows
C9_AppendOnly ==
    [][/\ Len(store') >= Len(store)
       /\ \A k \in 1..Len(store) : store'[k] = store[k]]_vars

\* a second pass has initialised a populated database and appended to it a
\* further row of a SKU already stored
C9_Witness ==
    /\ passes = 2
    /\ \E k \in 1..Len(store), j \in 1..Len(store) :
         k < j /\ store[k].sku = store[j].sku

\* C10: when init_db fails the pass is aborted with nothing else done: no
\* product is checked, nothing is stored or notified
C10_InitFailureAborts ==
    [][(log' # <<>> /\ log'[1].op = "init_db_failed")
       => /\ Len(log') = 1
          /\ pass' = "aborted"
          /\ store' = store /\ notified' = notified]_vars

\* init_db has failed on a populated database
C10_Witness ==
    /\ pass = "aborted"
    /\ log = <<Ev("init_db_failed", 0, NoFunc)>>
    /\ store # <<>>

\* C11: a call of send_notification makes at most one delivery attempt; when
\* the attempt fails, the failure and the message are printed, no second
\* attempt follows, and the pass goes on with the next product
C11_NotifyFailureContained ==
    [][Len(notified') = Len(notified) + 1
       => /\ Len(sms') <= Len(sms) + 1
          /\ (Len(sms') > Len(sms) /\ sms'[Len(sms')].status = "failed")
               => console' = console \o
                    <<Line("failed", notified'[Len(notified')]),
                      Line("message", notified'[Len(notified')])>>
          /\ PassGoesOn]_vars

\* a delivery has failed and the next product of the pass was notified
C11_Witness ==
    \E a \in 1..Len(sms) :
        /\ sms[a].status = "failed"
        /\ Len(sms) > a
        /\ pass # "aborted"

\* C12: an observation recorded with the sentinel price of a missing price
\* field is never notified, whatever the history and the availability
C12_SentinelNeverNotifies ==
    [][(Appended /\ NewRow.price = Inf)
       => /\ notified' = notified
          /\ log'[Len(log')].op # "send_notification"]_vars

\* an available observation with the sentinel price is the first one of its
\* SKU, and nothing was notified
C12_Witness ==
    /\ notified = <<>>
    /\ \E k \in 1..Len(store) :
         /\ store[k].price = Inf
         /\ store[k].available = 1
         /\ \A j \in 1..(k - 1) : store[j].sku # store[k].sku

\* the registered keys that are substrings of a locator
Matches(url) ==
    {k \in 1..Len(SCRAPER_MAPPING) : IsSubstring(SCRAPER_MAPPING[k].key, url)}

\* f is the function of the first registered key that matches the locator
IsFirstMatch(f, url) ==
    IF Matches(url) = {} THEN f = NoFunc
    ELSE \E k \in Matches(url) :
            /\ \A h \in Matches(url) : k <= h
            /\ f = SCRAPER_MAPPING[k].func

\* C13: the fetch capability selected for a locator, and called, is the one
\* of the first registered key among the keys that match it
C13_FirstRegisteredWins ==
    /\ \A j \in 1..Len(TRACKED_PRODUCTS) :
         IsFirstMatch(Dispatch(SCRAPER_MAPPING, TRACKED_PRODUCTS[j].url),
                      TRACKED_PRODUCTS[j].url)
    /\ \A e \in 1..Len(log) :
         log[e].op = "fetch"
           => IsFirstMatch(log[e].func, TRACKED_PRODUCTS[log[e].i].url)

\* the capability called belongs to a key registered before a longer key
\* that matches the same locator
C13_Witness ==
    \E e \in 1..Len(log) :
        /\ log[e].op = "fetch"
        /\ \E k \in Matches(TRACKED_PRODUCTS[log[e].i].url),
              h \in Matches(TRACKED_PRODUCTS[log[e].i].url) :
             /\ k < h
             /\ Len(SCRAPER_MAPPING[k].key) < Len(SCRAPER_MAPPING[h].key)
             /\ log[e].func = SCRAPER_MAPPING[k].func
             /\ log[e].func # SCRAPER_MAPPING[h].func

\* the schema of a database that init_db has set up
FullSchema == <<"price_history", "ix_price_history_sku_ts">>

\* C14: every call of init_db leaves the stored rows as they are and no
\* schema object twice; a call that succeeds leaves exactly one table and one
\* index, and one more call changes nothing
C14_InitIdempotent ==
    [][passes' = passes + 1
       => /\ store' = store
          /\ \A k \in 1..Len(schema'), j \in 1..Len(schema') :
               schema'[k] = schema'[j] => k = j
          /\ log'[1].op = "init_db"
               => /\ schema' = FullSchema
                  /\ init_db(schema', store', "ok")
                       = [schema |-> schema', store |-> store']]_vars

\* init_db has succeeded on a database that already had its schema and rows
C14_Witness ==
    /\ passes = 2
    /\ log = <<Ev("init_db", 0, NoFunc)>>
    /\ schema = FullSchema
    /\ store # <<>>

IsRowOf(row, p, t) ==
    /\ row.sku = p.sku
    /\ row.ts = t
    /\ row.site \in {"ExampleSite", "UnknownSite"}
    /\ row.price \in (1..MaxPrice) \cup {Inf}
    /\ row.shipping = 0
    /\ row.available \in {0, 1}

\* the products of the pass that were fetched without an error, in order
FetchedOk(l) ==
    SelectSeq(l, LAMBDA e : e.op = "fetch"
                 /\ \A x \in 1..Len(l) : ~(l[x].op = "fetch_error" /\ l[x].i = e.i))

\* C16: while the pass goes on, the store is the store of the previous
\* product boundary plus one complete row when the product was dispatched and
\* fetched, and is that store unchanged otherwise; so at every boundary the
\* rows added by the pass are those of the products fetched so far, in order
C16_OneRowPerFetch ==
    [][(pass = "running" /\ pass' # "aborted")
       => /\ IF Matches(TRACKED_PRODUCTS[i].url) # {} /\ ~Logged("fetch_error")
             THEN /\ Appended
                  /\ IsRowOf(NewRow, TRACKED_PRODUCTS[i], clock)
                  /\ \A k \in 1..Len(store) : store'[k] = store[k]
             ELSE store' = store
          /\ LET f == FetchedOk(log') IN
             /\ Len(f) <= Len(store')
             /\ \A k \in 1..Len(f) :
                  store'[Len(store') - Len(f) + k].sku = TRACKED_PRODUCTS[f[k].i].sku]_vars

\* a pass is at a boundary after a failed fetch and a stored product
C16_Witness ==
    /\ pass \in {"running", "done"}
    /\ \E a \in 1..Len(log), b \in 1..Len(log) :
         /\ log[a].op = "fetch_error"
         /\ log[b].op = "store_price"
    /\ store # <<>>
    /\ store[Len(store)].ts = clock

\* C17: an observation whose price is not below the lowest earlier in-window
\* price of its SKU is never notified
C17_NoNotificationUnlessLower ==
    [][(Appended /\ PriorLow(NewRow.sku) # None
          /\ NewRow.price >= PriorLow(NewRow.sku))
       => notified' = notified]_vars

\* an available observation above the earlier in-window low of its SKU was
\* stored without a notification
C17_Witness ==
    /\ notified = <<>>
    /\ Len(store) = 2
    /\ store[1].sku = store[2].sku
    /\ store[2].ts - Weeks <= store[1].ts
    /\ store[2].available = 1
    /\ store[2].price > store[1].price

\* the products for which the pass has called check_product, in call order
Checked == SelectSeq(log, LAMBDA e : e.op = "check_product")

\* C18: a pass whose init_db succeeded and in which no store write failed has
\* ended normally, after one call of check_product per product, in list order
C18_PassVisitsAll ==
    (/\ pass \in {"done", "aborted"}
     /\ log[1].op = "init_db"
     /\ \A e \in 1..Len(log) : log[e].op # "store_error")
    => /\ pass = "done"
       /\ Len(Checked) = Len(TRACKED_PRODUCTS)
       /\ \A k \in 1..Len(Checked) : Checked[k].i = k

RowsOf(st, sku) == SelectSeq(st, LAMBDA r : r.sku = sku)

\* C20: check_product on a product leaves the rows of every other SKU, and
\* the trailing low of every other SKU at any query time, as they were
C20_OtherSkusUntouched ==
    [][(pass = "running" /\ i <= Len(TRACKED_PRODUCTS) /\ store' # store)
       => \A sku \in Skus \ {TRACKED_PRODUCTS[i].sku} :
            /\ RowsOf(store', sku) = RowsOf(store, sku)
            /\ \A w \in QueryWeeks, t \in Times :
                 get_trailing_low(store', sku, w, t)
                   = get_trailing_low(store, sku, w, t)]_vars

\* a row of one SKU was appended to a store that held a row of another SKU
C20_Witness ==
    \E k \in 1..Len(store), j \in 1..Len(store) :
        k < j /\ store[k].sku # store[j].sku

====
